---- MODULE Spec2Model ----
(***************************************************************************)
(* dagger: DMARC aggregate report reader.                                  *)
(*                                                                         *)
(*   - the report model of src/src/dmarc.rs: serde/quick_xml               *)
(*     deserialization of the report elements and the normalisation of     *)
(*     policy_published (SpecModel);                                       *)
(*   - the report loader of src/src/main.rs: the mbox split and the        *)
(*     per-message loop of main (SpecLoader);                              *)
(*   - the aggregator (sort by begin, dedup by report_id), which is not    *)
(*     part of the sources at hand and is modelled from the specification  *)
(*     (SpecAgg).                                                          *)
(*                                                                         *)
(* Texts are sequences of tokens: "temperror" is <<"temp", "error">> and   *)
(* "temp_error" is <<"temp", "_", "error">>, so that serde's rename rules  *)
(* are computed from the variant names and not tabulated.  The empty       *)
(* string is <<>>.  An Option is <<"None">> or <<"Some", x>>.              *)
(***************************************************************************)
EXTENDS Integers, Sequences, FiniteSets, TLC

VARIABLES
    op,        \* report model: the deserializer last applied ("idle" before any)
    input,     \* report model: the element it was applied to
    output,    \* report model: its Result
    argc,      \* loader: args.len()
    readable,  \* loader: whether fs::read_to_string(path) succeeds
    content,   \* loader: the mbox text, a sequence of tokens
    emails,    \* loader: content.split("From ").skip(1)
    taken,     \* loader: how many segments the for loop has taken from emails
    pc,        \* loader: position in main
    stdout,    \* loader: the lines printed so far
    exit,      \* loader: main's Result once it returned ("running" before)
    batch,     \* aggregator: the feedbacks handed to it
    sorted,    \* aggregator: the list after the sort
    retained,  \* aggregator: the list after the dedup
    stage      \* aggregator: "loaded", then "aggregated"

modelVars == <<op, input, output>>
loaderVars == <<argc, readable, content, emails, taken, pc, stdout, exit>>
aggVars == <<batch, sorted, retained, stage>>
vars ==
    <<op, input, output, argc, readable, content, emails, taken, pc, stdout,
      exit, batch, sorted, retained, stage>>

-----------------------------------------------------------------------------
(* Option and Result *)

None == <<"None">>
Some(x) == <<"Some", x>>
IsSome(o) == o[1] = "Some"
Unwrap(o) == o[2]

Ok(v) == [ok |-> TRUE, val |-> v, err |-> "none"]
Err(e) == [ok |-> FALSE, val |-> <<>>, err |-> e]

-----------------------------------------------------------------------------
(* serde rename rules, computed on a variant's words:                      *)
(* TempError is <<"temp", "error">>.                                       *)

RECURSIVE SnakeCase(_)
SnakeCase(words) ==
    IF Len(words) <= 1 THEN words
    ELSE <<Head(words), "_">> \o SnakeCase(Tail(words))

Lowercase(words) == words

\* An element of a struct, looked up by the name serde matches it under.
Field(doc, name) == IF name \in DOMAIN doc THEN doc[name] ELSE None

\* A unit enum read from an element's text; names gives each variant's
\* serialized name.
DeserializeEnum(names, text) ==
    IF \E v \in DOMAIN names : names[v] = text
    THEN Ok(CHOOSE v \in DOMAIN names : names[v] = text)
    ELSE Err("unknown variant")

\* A required field holding a unit enum.
RequiredEnum(doc, name, names) ==
    IF IsSome(Field(doc, name))
    THEN DeserializeEnum(names, Unwrap(Field(doc, name)))
    ELSE Err("missing field")

\* An Option<enum> field: absent is None, present is parsed.
OptionalEnum(doc, name, names) ==
    IF IsSome(Field(doc, name))
    THEN LET r == DeserializeEnum(names, Unwrap(Field(doc, name)))
         IN IF r.ok THEN Ok(Some(r.val)) ELSE r
    ELSE Ok(None)

\* A required String field.
RequiredString(doc, name) ==
    IF IsSome(Field(doc, name)) THEN Ok(Unwrap(Field(doc, name)))
    ELSE Err("missing field")

-----------------------------------------------------------------------------
(* The enumerations of dmarc.rs *)

Disposition == {<<"none">>, <<"quarantine">>, <<"reject">>}
\* serde(rename_all = "snake_case")
DispositionNames == [v \in Disposition |-> SnakeCase(v)]

Alignment == {<<"relaxed">>, <<"strict">>}
\* serde(rename = "r"), serde(rename = "s")
AlignmentNames ==
    [v \in Alignment |-> IF v = <<"relaxed">> THEN <<"r">> ELSE <<"s">>]

DmarcResult == {<<"pass">>, <<"fail">>}
\* serde(rename_all = "snake_case")
DmarcResultNames == [v \in DmarcResult |-> SnakeCase(v)]

Other == <<"other">>
PolicyOverride ==
    {<<"forwarded">>, <<"sampled", "out">>, <<"trusted", "forwarder">>,
     <<"mailing", "list">>, <<"local", "policy">>, Other}
\* serde(rename_all = "snake_case")
PolicyOverrideNames == [v \in PolicyOverride |-> SnakeCase(v)]
\* impl Default for PolicyOverride
PolicyOverrideDefault == Other

DkimResult ==
    {<<"none">>, <<"pass">>, <<"fail">>, <<"policy">>, <<"neutral">>,
     <<"temp", "error">>, <<"perm", "error">>}
\* serde(rename_all = "snake_case")
DkimResultNames == [v \in DkimResult |-> SnakeCase(v)]

-----------------------------------------------------------------------------
(* policy_published: PolicyPublishedWrapper, then From<PolicyPublishedWrapper> *)

U8Max == 255

\* pct: u8
DeserializeU8(doc, name) ==
    IF ~IsSome(Field(doc, name)) THEN Err("missing field")
    ELSE IF Unwrap(Field(doc, name)) < 0 \/ Unwrap(Field(doc, name)) > U8Max
         THEN Err("invalid number")
         ELSE Ok(Unwrap(Field(doc, name)))

\* The name serde matches the wrapper's sp field under: the element's own text.
SpFieldName == "$text"

PolicyPublishedWrapper(doc) ==
    LET domain == RequiredString(doc, "domain")
        adkim == OptionalEnum(doc, "adkim", AlignmentNames)
        aspf == OptionalEnum(doc, "aspf", AlignmentNames)
        p == RequiredEnum(doc, "p", DispositionNames)
        sp == OptionalEnum(doc, SpFieldName, DispositionNames)
        pct == DeserializeU8(doc, "pct")
    IN  IF ~domain.ok THEN domain
        ELSE IF ~adkim.ok THEN adkim
        ELSE IF ~aspf.ok THEN aspf
        ELSE IF ~p.ok THEN p
        ELSE IF ~sp.ok THEN sp
        ELSE IF ~pct.ok THEN pct
        ELSE Ok([domain |-> domain.val, adkim |-> adkim.val, aspf |-> aspf.val,
                 p |-> p.val, sp |-> sp.val, pct |-> pct.val,
                 fo |-> Field(doc, "fo")])

\* Mutant of UnwrapOr: the fallback is Disposition's first variant, not p.
UnwrapOr_FirstVariant(o, d) == IF IsSome(o) THEN Unwrap(o) ELSE <<"none">>

\* Option::unwrap_or
UnwrapOr(o, d) == IF IsSome(o) THEN Unwrap(o) ELSE d

\* Mutant of UnwrapOrDefault: fo is left the Option the wrapper holds.
UnwrapOrDefault_LeftOption(o) == o

\* Option<String>::unwrap_or_default
UnwrapOrDefault(o) == IF IsSome(o) THEN Unwrap(o) ELSE <<>>

PolicyPublishedFrom(value) ==
    [domain |-> value.domain, adkim |-> value.adkim, aspf |-> value.aspf,
     p |-> value.p, sp |-> UnwrapOr(value.sp, value.p), pct |-> value.pct,
     fo |-> UnwrapOrDefault(value.fo)]

deserialize_from_wrapper(doc) ==
    LET wrapper == PolicyPublishedWrapper(doc)
    IN  IF wrapper.ok THEN Ok(PolicyPublishedFrom(wrapper.val)) ELSE wrapper

-----------------------------------------------------------------------------
(* report_metadata *)

\* date_range: ts_seconds begin and end
DateRange(doc) ==
    IF ~IsSome(Field(doc, "begin")) \/ ~IsSome(Field(doc, "end"))
    THEN Err("missing field")
    ELSE Ok([begin |-> Unwrap(Field(doc, "begin")),
             end |-> Unwrap(Field(doc, "end"))])

\* Mutant of DateRangeNames: the alias is missing.
DateRangeNames_NoAlias == {"date_range"}

\* The element names the date_range field is matched under.
DateRangeNames == {"date_range", "data_range"}

ReportMetadata(doc) ==
    LET org_name == RequiredString(doc, "org_name")
        email == RequiredString(doc, "email")
        report_id == RequiredString(doc, "report_id")
        given == {n \in DateRangeNames : IsSome(Field(doc, n))}
        date_range ==
            IF given = {} THEN Err("missing field")
            ELSE IF Cardinality(given) > 1 THEN Err("duplicate field")
            ELSE DateRange(Unwrap(Field(doc, CHOOSE n \in given : TRUE)))
    IN  IF ~org_name.ok THEN org_name
        ELSE IF ~email.ok THEN email
        ELSE IF ~report_id.ok THEN report_id
        ELSE IF ~date_range.ok THEN date_range
        ELSE Ok([org_name |-> org_name.val, email |-> email.val,
                 extra_contact_info |-> Field(doc, "extra_contact_info"),
                 report_id |-> report_id.val, date_range |-> date_range.val,
                 errors |-> doc["error"]])

-----------------------------------------------------------------------------
(* policy_evaluated and its override reasons *)

\* Mutant of TypFieldName: typ is matched under the element name type.
TypFieldName_Element == "type"

\* The name serde matches PolicyOverrideReason.typ under.
TypFieldName == "type$text"

PolicyOverrideReason(doc) ==
    LET typ ==
            IF IsSome(Field(doc, TypFieldName))
            THEN DeserializeEnum(PolicyOverrideNames,
                                 Unwrap(Field(doc, TypFieldName)))
            ELSE Ok(PolicyOverrideDefault)
    IN  IF ~typ.ok THEN typ
        ELSE Ok([typ |-> typ.val, comment |-> Field(doc, "comment")])

PolicyEvaluated(doc) ==
    LET disposition == RequiredEnum(doc, "disposition", DispositionNames)
        dkim == RequiredEnum(doc, "dkim", DmarcResultNames)
        spf == RequiredEnum(doc, "spf", DmarcResultNames)
        reasons == [i \in 1..Len(doc["reason"]) |->
                        PolicyOverrideReason(doc["reason"][i])]
    IN  IF ~disposition.ok THEN disposition
        ELSE IF ~dkim.ok THEN dkim
        ELSE IF ~spf.ok THEN spf
        ELSE IF \E i \in 1..Len(reasons) : ~reasons[i].ok
             THEN reasons[CHOOSE i \in 1..Len(reasons) : ~reasons[i].ok
                             /\ \A j \in 1..(i - 1) : reasons[j].ok]
        ELSE Ok([disposition |-> disposition.val, dkim |-> dkim.val,
                 spf |-> spf.val,
                 reasons |-> [i \in 1..Len(reasons) |-> reasons[i].val]])

-----------------------------------------------------------------------------
(* auth_results: one dkim element *)

DkimAuthResult(doc) ==
    LET domain == RequiredString(doc, "domain")
        result == RequiredEnum(doc, "result", DkimResultNames)
    IN  IF ~domain.ok THEN domain
        ELSE IF ~result.ok THEN result
        ELSE Ok([domain |-> domain.val, selector |-> Field(doc, "selector"),
                 result |-> result.val,
                 human_result |-> Field(doc, "human_result")])

-----------------------------------------------------------------------------
(* The elements the deserializers are applied to *)

SomeOf(S) == {Some(x) : x \in S}

PolicyPublishedDocs ==
    {r @@ ("$text" :> t) :
        r \in [domain : {None, Some(<<"example.com">>)},
               adkim : {None, Some(<<"r">>), Some(<<"relaxed">>)},
               aspf : {None, Some(<<"s">>)},
               p : {None, Some(<<"none">>), Some(<<"quarantine">>),
                    Some(<<"reject">>), Some(<<"drop">>)},
               sp : {None, Some(<<"none">>), Some(<<"quarantine">>),
                     Some(<<"reject">>)},
               pct : {None, Some(0), Some(100), Some(300)},
               fo : {None, Some(<<>>), Some(<<"1">>)}],
        t \in {None, Some(<<"reject">>)}}

DateRangeDocs ==
    [begin : {None, Some(0), Some(86400)}, end : {None, Some(86400)}]

ReportMetadataDocs ==
    [org_name : {None, Some(<<"google.com">>)},
     email : {Some(<<"noreply@google.com">>)},
     extra_contact_info : {None, Some(<<"https://support">>)},
     report_id : {None, Some(<<"1">>), Some(<<"2">>)},
     date_range : {None} \cup SomeOf(DateRangeDocs),
     data_range : {None} \cup SomeOf(DateRangeDocs),
     error : {<<>>, << <<"oops">> >>}]

ReasonTypes ==
    {None, Some(<<>>), Some(<<"bogus">>), Some(<<"sampledout">>)}
        \cup SomeOf({SnakeCase(v) : v \in PolicyOverride})

PolicyOverrideReasonDocs ==
    [type : ReasonTypes,
     comment : {None, Some(<<>>), Some(<<"some", " ", "text">>)}]

MaxReasons == 2

ReasonLists ==
    UNION {[1..n -> {d \in PolicyOverrideReasonDocs : d.comment = None}] :
              n \in 0..MaxReasons}

PolicyEvaluatedDocs ==
    [disposition : {Some(<<"none">>), Some(<<"drop">>)},
     dkim : {Some(<<"pass">>)},
     spf : {None, Some(<<"fail">>)},
     reason : ReasonLists]

DkimResultTexts ==
    {<<>>, <<"softfail">>, <<"temperror">>, <<"permerror">>}
        \cup {SnakeCase(v) : v \in DkimResult}
        \cup {Lowercase(v) : v \in DkimResult}

DkimAuthResultDocs ==
    [domain : {None, Some(<<"example.com">>)},
     selector : {None, Some(<<"s1">>)},
     result : {None} \cup SomeOf(DkimResultTexts),
     human_result : {None, Some(<<>>)}]

-----------------------------------------------------------------------------------------------------------------------------------------------------
(* SpecModel: one element is handed to the report model, and its           *)
(* deserializer is applied to it.                                          *)

Pending == Err("pending")

LoaderIdle ==
    /\ argc = 0
    /\ readable = FALSE
    /\ content = <<>>
    /\ emails = <<>>
    /\ taken = 0
    /\ pc = "idle"
    /\ stdout = <<>>
    /\ exit = "idle"

AggIdle ==
    /\ batch = <<>>
    /\ sorted = <<>>
    /\ retained = <<>>
    /\ stage = "idle"

ModelIdle ==
    /\ op = "idle"
    /\ input = <<>>
    /\ output = Pending

InitModel ==
    /\ \/ op = "policy_published" /\ input \in PolicyPublishedDocs
       \/ op = "report_metadata" /\ input \in ReportMetadataDocs
       \/ op = "reason" /\ input \in PolicyOverrideReasonDocs
       \/ op = "policy_evaluated" /\ input \in PolicyEvaluatedDocs
       \/ op = "dkim" /\ input \in DkimAuthResultDocs
    /\ output = Pending
    /\ LoaderIdle
    /\ AggIdle

DeserializePolicyPublished ==
    /\ op = "policy_published"
    /\ output = Pending
    /\ output' = deserialize_from_wrapper(input)
    /\ UNCHANGED <<op, input, loaderVars, aggVars>>

DeserializeReportMetadata ==
    /\ op = "report_metadata"
    /\ output = Pending
    /\ output' = ReportMetadata(input)
    /\ UNCHANGED <<op, input, loaderVars, aggVars>>

DeserializePolicyOverrideReason ==
    /\ op = "reason"
    /\ output = Pending
    /\ output' = PolicyOverrideReason(input)
    /\ UNCHANGED <<op, input, loaderVars, aggVars>>

DeserializePolicyEvaluated ==
    /\ op = "policy_evaluated"
    /\ output = Pending
    /\ output' = PolicyEvaluated(input)
    /\ UNCHANGED <<op, input, loaderVars, aggVars>>

DeserializeDkimAuthResult ==
    /\ op = "dkim"
    /\ output = Pending
    /\ output' = DkimAuthResult(input)
    /\ UNCHANGED <<op, input, loaderVars, aggVars>>

NextModel ==
    \/ DeserializePolicyPublished
    \/ DeserializeReportMetadata
    \/ DeserializePolicyOverrideReason
    \/ DeserializePolicyEvaluated
    \/ DeserializeDkimAuthResult

SpecModel == InitModel /\ [][NextModel]_vars

-----------------------------------------------------------------------------
(* Claims on the report model (SpecModel) *)

Applied(name) == op = name /\ output # Pending

\* A policy_published element with no sp: no sp element, and (as in any
\* document of the report schema) no text of its own between its elements.
NoSp(doc) == ~IsSome(doc["sp"]) /\ ~IsSome(doc["$text"])

\* C2: a policy_published element without sp that deserializes has, once
\* normalized, sp equal to p, the disposition its p element names.
C2_SpInheritsP ==
    (Applied("policy_published") /\ output.ok /\ NoSp(input))
        => /\ output.val.sp = output.val.p
           /\ SnakeCase(output.val.p) = Unwrap(input["p"])
           /\ output.val.sp \in Disposition

C2_Witness ==
    /\ Applied("policy_published") /\ output.ok /\ NoSp(input)
    /\ output.val.sp = <<"quarantine">>

RecognizedTypes == {SnakeCase(v) : v \in PolicyOverride}

Unrecognized(t) == ~IsSome(t) \/ Unwrap(t) \notin RecognizedTypes

\* C4: a reason whose type is missing, empty or outside the enumeration
\* deserializes, with kind other; a policy_evaluated element that is
\* accepted without its reasons is accepted with such reasons, each of kind
\* other.
C4_UnknownTypeIsOther ==
    /\ (Applied("reason") /\ Unrecognized(input.type))
           => output.ok /\ output.val.typ = Other
    /\ (/\ Applied("policy_evaluated")
        /\ PolicyEvaluated([input EXCEPT !.reason = <<>>]).ok
        /\ \A i \in 1..Len(input.reason) : Unrecognized(input.reason[i].type))
           => /\ output.ok
              /\ Len(output.val.reasons) = Len(input.reason)
              /\ \A i \in 1..Len(input.reason) :
                     output.val.reasons[i].typ = Other

C4_Witness ==
    /\ Applied("policy_evaluated") /\ output.ok
    /\ Len(input.reason) = 2
    /\ input.reason[1].type = Some(<<"bogus">>)
    /\ input.reason[2].type = None

\* C5: a reason whose type is one of forwarded, sampled_out,
\* trusted_forwarder, mailing_list, local_policy has that kind; the kind
\* other results only from other, an absent or an unrecognized type.
C5_RecognizedTypeKept ==
    \A v \in PolicyOverride :
        (Applied("reason") /\ input.type = Some(SnakeCase(v)))
            => output.ok /\ output.val.typ = v

\* The same report_metadata element with its date range under date_range.
Respelled(doc) ==
    [doc EXCEPT !.date_range = doc.data_range, !.data_range = None]

UsesAlias(doc) == IsSome(doc.data_range) /\ ~IsSome(doc.date_range)

\* C6: a report_metadata element giving its date range under data_range
\* deserializes to what the same element with date_range deserializes to:
\* it is accepted when that one is, with the same begin, end and other fields.
C6_AliasSameAsCorrect ==
    (Applied("report_metadata") /\ UsesAlias(input))
        => /\ output = ReportMetadata(Respelled(input))
           /\ (/\ IsSome(input.org_name) /\ IsSome(input.report_id)
               /\ IsSome(Unwrap(input.data_range).begin)
               /\ IsSome(Unwrap(input.data_range).end))
                  => /\ output.ok
                     /\ output.val.date_range.begin
                            = Unwrap(Unwrap(input.data_range).begin)
                     /\ output.val.date_range.end
                            = Unwrap(Unwrap(input.data_range).end)
                     /\ output.val.report_id = Unwrap(input.report_id)

C6_Witness ==
    /\ Applied("report_metadata") /\ UsesAlias(input)
    /\ output.ok
    /\ output.val.date_range = [begin |-> 0, end |-> 86400]

\* The DKIM verdict texts of the specification: none, pass, fail, policy,
\* neutral, temperror, permerror.
DkimVerdictTexts == {Lowercase(v) : v \in DkimResult}

\* C7: in a dkim element that is otherwise complete, each of the seven
\* verdict texts deserializes to its DkimResult variant, and any other text
\* is a schema error.
C7_DkimVerdictsClosed ==
    (Applied("dkim") /\ IsSome(input.domain) /\ IsSome(input.result))
        => /\ \A v \in DkimResult :
                  Unwrap(input.result) = Lowercase(v)
                      => output.ok /\ output.val.result = v
           /\ Unwrap(input.result) \notin DkimVerdictTexts => ~output.ok

-----------------------------------------------------------------------------
(* The report loader: main of main.rs.                                     *)
(*                                                                         *)
(* An mbox text is a sequence of tokens: the marker "From ", the line      *)
(* break, and tokens that each stand for the text of one message (its      *)
(* headers and parts), described by Mail below.                            *)

Marker == "From "
Newline == "\n"

TextPlain == "text/plain"
ApplicationZip == "application/zip"
ApplicationGzip == "application/gzip"

\* What a part's body holds: an archive of a report that fits the schema, an
\* archive of XML that does not, or bytes that are no archive.
ZipReport == [mimetype |-> ApplicationZip, body |-> "report"]
ZipBadXml == [mimetype |-> ApplicationZip, body |-> "badxml"]
ZipCorrupt == [mimetype |-> ApplicationZip, body |-> "corrupt"]
GzipReport == [mimetype |-> ApplicationGzip, body |-> "report"]
PlainText == [mimetype |-> TextPlain, body |-> "text"]

MailTexts ==
    {"report", "badxml", "corruptzip", "nosubject", "textonly", "gzip",
     "twozip", "broken"}

\* The message a text parses to: whether its envelope parses at all, its
\* Subject header, and its parts in the order ParsedMail::parts walks them.
Mail(text) ==
    CASE text = "report" ->
            [ok |-> TRUE, subject |-> Some("report"),
             parts |-> <<PlainText, ZipReport>>]
      [] text = "badxml" ->
            [ok |-> TRUE, subject |-> Some("badxml"),
             parts |-> <<PlainText, ZipBadXml>>]
      [] text = "corruptzip" ->
            [ok |-> TRUE, subject |-> Some("corruptzip"),
             parts |-> <<PlainText, ZipCorrupt>>]
      [] text = "nosubject" ->
            [ok |-> TRUE, subject |-> None, parts |-> <<PlainText, ZipReport>>]
      [] text = "textonly" ->
            [ok |-> TRUE, subject |-> Some("textonly"),
             parts |-> <<PlainText>>]
      [] text = "gzip" ->
            [ok |-> TRUE, subject |-> Some("gzip"),
             parts |-> <<PlainText, GzipReport>>]
      [] text = "twozip" ->
            [ok |-> TRUE, subject |-> Some("twozip"),
             parts |-> <<ZipReport, ZipReport>>]
      [] text = "broken" ->
            [ok |-> FALSE, subject |-> None, parts |-> <<>>]

\* A text with no header at all: what is left of an empty segment.
EmptyMail == [ok |-> TRUE, subject |-> None, parts |-> <<PlainText>>]

\* mailparse::parse_mail on a segment: the segment's leading message text
\* decides its headers and parts; what follows is body text.
parse_mail(email) ==
    LET texts == SelectSeq(email, LAMBDA t : t \in MailTexts)
    IN  IF texts = <<>> THEN EmptyMail ELSE Mail(Head(texts))

\* str::split(pattern): the pieces between the occurrences of the marker,
\* wherever they stand.
RECURSIVE split(_)
split(text) ==
    IF \A i \in 1..Len(text) : text[i] # Marker THEN <<text>>
    ELSE LET i == CHOOSE k \in 1..Len(text) :
                      text[k] = Marker /\ \A j \in 1..(k - 1) : text[j] # Marker
         IN  <<SubSeq(text, 1, i - 1)>> \o split(SubSeq(text, i + 1, Len(text)))

\* Iterator::skip(1)
skip1(segments) == IF segments = <<>> THEN <<>> ELSE Tail(segments)

\* A line of standard output, with the message (its place in emails, 0 for
\* none) it was printed for.
Line(msg, what, arg) == [msg |-> msg, line |-> what, arg |-> arg]

\* extract_xml_from_zip: prints the part's type, then reads the archive.
extract_xml_from_zip(part) ==
    IF part.body = "corrupt" THEN Err("zip") ELSE Ok(part.body)

\* parse_report: prints the XML, then deserializes it.
parse_report(xml) ==
    IF xml = "report" THEN Ok("Feedback") ELSE Err("xml")

\* The part types main hands to extract_xml_from_zip.
ExtractedTypes == {ApplicationZip}

\* for part in parsed_mail.parts(): the lines printed, and the error that
\* `?` returns from main, if any.
RECURSIVE WalkParts(_, _, _)
WalkParts(msg, parts, out) ==
    IF parts = <<>> THEN [out |-> out, err |-> "none"]
    ELSE LET part == Head(parts)
         IN  IF part.mimetype \notin ExtractedTypes
             THEN WalkParts(msg, Tail(parts), out)
             ELSE LET xml == extract_xml_from_zip(part)
                      typed == Append(out, Line(msg, "mimetype", part.mimetype))
                  IN  IF ~xml.ok THEN [out |-> typed, err |-> xml.err]
                      ELSE LET report == parse_report(xml.val)
                           IN  WalkParts(msg, Tail(parts),
                                   typed \o
                                   <<Line(msg, "xml", xml.val),
                                     Line(msg, "report",
                                          IF report.ok THEN "Ok" ELSE "Err")>>)

-----------------------------------------------------------------------------
(* SpecLoader *)

MaxChunks == 3

\* The pieces mbox texts are made of: a message on lines of its own, a
\* message whose last line does not end (so that what follows is on the same
\* line), and text without a marker.
Chunks ==
    {<<Marker, t, Newline>> : t \in MailTexts}
        \cup {<<Marker, t>> : t \in {"report", "textonly"}}
        \cup {<<"report", Newline>>}

RECURSIVE Concat(_)
Concat(chunks) ==
    IF chunks = <<>> THEN <<>> ELSE Head(chunks) \o Concat(Tail(chunks))

Contents == {Concat(cs) : cs \in UNION {[1..n -> Chunks] : n \in 0..MaxChunks}}

InitLoader ==
    /\ ModelIdle
    /\ AggIdle
    /\ \/ argc = 2 /\ readable = TRUE /\ content \in Contents
       \/ argc = 2 /\ readable = FALSE /\ content = <<>>
       \/ argc = 1 /\ readable = TRUE /\ content = <<>>
    /\ emails = <<>>
    /\ taken = 0
    /\ pc = "start"
    /\ stdout = <<>>
    /\ exit = "running"

\* main, up to the loop: the usage line, the read, the split.
Start ==
    /\ pc = "start"
    /\ IF argc < 2
       THEN /\ stdout' = Append(stdout, Line(0, "usage", "dagger mbox_path"))
            /\ exit' = "Ok"
            /\ pc' = "done"
            /\ UNCHANGED emails
       ELSE IF ~readable
       THEN /\ exit' = "Err(io)"
            /\ pc' = "done"
            /\ UNCHANGED <<emails, stdout>>
       ELSE /\ emails' = skip1(split(content))
            /\ pc' = "loop"
            /\ UNCHANGED <<exit, stdout>>
    /\ UNCHANGED <<argc, readable, content, taken, modelVars, aggVars>>

\* One turn of `for email in emails.skip(1)`.
ProcessEmail ==
    /\ pc = "loop"
    /\ taken < Len(emails)
    /\ taken' = taken + 1
    /\ LET msg == taken + 1
           parsed_mail == parse_mail(emails[msg])
       IN  IF ~parsed_mail.ok
           THEN /\ exit' = "Err(MailParseError)"
                /\ pc' = "done"
                /\ UNCHANGED stdout
           ELSE IF ~IsSome(parsed_mail.subject)
           THEN /\ exit' = "Err(MissingSubject)"
                /\ pc' = "done"
                /\ UNCHANGED stdout
           ELSE LET walked ==
                        WalkParts(msg, parsed_mail.parts,
                            Append(stdout,
                                Line(msg, "processing",
                                     Unwrap(parsed_mail.subject))))
                IN  /\ stdout' = walked.out
                    /\ IF walked.err = "none"
                       THEN UNCHANGED <<exit, pc>>
                       ELSE /\ exit' = "Err(zip)"
                            /\ pc' = "done"
    /\ UNCHANGED <<argc, readable, content, emails, modelVars, aggVars>>

\* The loop is over: Ok(()).
Finish ==
    /\ pc = "loop"
    /\ taken = Len(emails)
    /\ exit' = "Ok"
    /\ pc' = "done"
    /\ UNCHANGED <<argc, readable, content, emails, taken, stdout, modelVars,
                   aggVars>>

NextLoader == Start \/ ProcessEmail \/ Finish

SpecLoader == InitLoader /\ [][NextLoader]_vars

-----------------------------------------------------------------------------
(* Claims on the report loader (SpecLoader) *)

\* main has returned from a run that read its mbox.
Ran == pc = "done" /\ argc = 2 /\ readable

Processed == SubSeq(emails, 1, taken)

\* C1: when every message's envelope parses, a message without Subject, with
\* a corrupt archive or with XML off the schema does not end the run: every
\* message is processed and main returns Ok.
C1_MessageFailureNeverAborts ==
    (Ran /\ \A i \in 1..Len(emails) : parse_mail(emails[i]).ok)
        => exit = "Ok" /\ taken = Len(emails)

\* The markers that begin a line.
LineMarkers(text) ==
    {i \in 1..Len(text) :
        text[i] = Marker /\ (i = 1 \/ text[i - 1] = Newline)}

\* The segment after the line marker at i: up to the next line marker.
SegmentAfter(text, i) ==
    LET later == {j \in LineMarkers(text) : j > i}
        last == IF later = {} THEN Len(text)
                ELSE (CHOOSE j \in later : \A k \in later : j <= k) - 1
    IN  SubSeq(text, i + 1, last)

\* The segments after the line markers, in file order.
RECURSIVE SegmentsFrom(_, _)
SegmentsFrom(text, from) ==
    LET rest == {i \in LineMarkers(text) : i >= from}
    IN  IF rest = {} THEN <<>>
        ELSE LET i == CHOOSE j \in rest : \A k \in rest : j <= k
             IN  <<SegmentAfter(text, i)>> \o SegmentsFrom(text, i + 1)

\* C8: the messages of a run that ends Ok are the segments after the markers
\* that begin a line, in file order (a marker inside a line starts none, the
\* text before the first marker is none); with no marker the run processes
\* nothing and ends Ok.
C8_SplitAtLineMarkers ==
    /\ (Ran /\ exit = "Ok") => Processed = SegmentsFrom(content, 1)
    /\ (Ran /\ \A i \in 1..Len(content) : content[i] # Marker)
           => exit = "Ok" /\ taken = 0

SupportedTypes == {ApplicationZip, ApplicationGzip}

NoSupportedPart(mail) ==
    \A j \in 1..Len(mail.parts) : mail.parts[j].mimetype \notin SupportedTypes

\* The messages of emails that have a Subject and no part of a supported type.
Unsupported ==
    {i \in 1..Len(emails) :
        LET mail == parse_mail(emails[i])
        IN  mail.ok /\ IsSome(mail.subject) /\ NoSupportedPart(mail)}

\* The lines printed for message i besides the "Processing email" line every
\* message gets.
LinesAbout(i) ==
    {j \in 1..Len(stdout) : stdout[j].msg = i /\ stdout[j].line # "processing"}

Feedbacks ==
    {j \in 1..Len(stdout) : stdout[j].line = "report" /\ stdout[j].arg = "Ok"}

\* C9: of n messages, k without a part of a supported type and the others
\* each holding one valid report, the run yields n - k parsed feedbacks and
\* one diagnostic for each of the k skipped messages.
C9_SkipsAreDiagnosed ==
    (Ran /\ \A i \in 1..Len(emails) :
                i \in Unsupported \/ parse_mail(emails[i]) = Mail("report"))
        => /\ Cardinality(Feedbacks) = Len(emails) - Cardinality(Unsupported)
           /\ \A i \in Unsupported : Cardinality(LinesAbout(i)) = 1

-----------------------------------------------------------------------------
(* The aggregator: sort ascending by report_metadata.date_range.begin, then *)
(* dedup by report_metadata.report_id.  A feedback is its report_id and its *)
(* begin.  The sort is any ascending arrangement of the batch: nothing      *)
(* fixes the order of feedbacks with equal begin.                           *)

MaxBatch == 4

ReportIds == {"1", "2"}
Begins == {0, 86400, 172800}

FeedbackSet == [report_id : ReportIds, begin : Begins]

Batches == UNION {[1..n -> FeedbackSet] : n \in 0..MaxBatch}

Ascending(list) ==
    \A i \in 1..(Len(list) - 1) : list[i].begin <= list[i + 1].begin

\* The ascending arrangements of a list.
Sorts(list) ==
    {s \in {[i \in 1..Len(list) |-> list[perm[i]]] :
               perm \in Permutations(1..Len(list))} : Ascending(s)}

\* Mutant of dedup_by_key: a feedback is dropped when any retained feedback
\* has its report_id, adjacent or not.
RECURSIVE dedup_by_key_AnyRetained(_, _)
dedup_by_key_AnyRetained(list, kept) ==
    IF list = <<>> THEN kept
    ELSE IF \E i \in 1..Len(kept) : kept[i].report_id = Head(list).report_id
         THEN dedup_by_key_AnyRetained(Tail(list), kept)
         ELSE dedup_by_key_AnyRetained(Tail(list), Append(kept, Head(list)))

\* Dedup by key: a feedback is dropped when the feedback retained last has
\* its report_id.
RECURSIVE dedup_by_key(_, _)
dedup_by_key(list, kept) ==
    IF list = <<>> THEN kept
    ELSE IF kept # <<>> /\ kept[Len(kept)].report_id = Head(list).report_id
         THEN dedup_by_key(Tail(list), kept)
         ELSE dedup_by_key(Tail(list), Append(kept, Head(list)))

InitAgg ==
    /\ ModelIdle
    /\ LoaderIdle
    /\ batch \in Batches
    /\ sorted = <<>>
    /\ retained = <<>>
    /\ stage = "loaded"

Aggregate ==
    /\ stage = "loaded"
    /\ \E s \in Sorts(batch) :
          /\ sorted' = s
          /\ retained' = dedup_by_key(s, <<>>)
    /\ stage' = "aggregated"
    /\ UNCHANGED <<batch, modelVars, loaderVars>>

NextAgg == Aggregate

SpecAgg == InitAgg /\ [][NextAgg]_vars

-----------------------------------------------------------------------------
(* Claim on the aggregator (SpecAgg) *)

\* The places of sorted that begin a maximal run of equal report_id.
RunStarts ==
    {i \in 1..Len(sorted) :
        i = 1 \/ sorted[i].report_id # sorted[i - 1].report_id}

\* The feedbacks of a list at the places of a set, in order.
RECURSIVE Pick(_, _, _)
Pick(list, places, from) ==
    IF from > Len(list) THEN <<>>
    ELSE (IF from \in places THEN <<list[from]>> ELSE <<>>)
             \o Pick(list, places, from + 1)

\* C10: after the aggregation, sorted is the batch in ascending order of
\* begin, and retained is the first feedback of each maximal run of adjacent
\* equal report_id in sorted: no two adjacent retained feedbacks share a
\* report_id, and there are as many retained feedbacks as runs, so equal
\* report_ids that are apart in sorted are both retained.
C10_FirstOfEachRun ==
    stage = "aggregated"
        => /\ Ascending(sorted)
           /\ Len(sorted) = Len(batch)
           /\ \A f \in FeedbackSet :
                  Cardinality({i \in 1..Len(batch) : batch[i] = f})
                      = Cardinality({i \in 1..Len(sorted) : sorted[i] = f})
           /\ retained = Pick(sorted, RunStarts, 1)
           /\ Len(retained) = Cardinality(RunStarts)
           /\ \A i \in 1..(Len(retained) - 1) :
                  retained[i].report_id # retained[i + 1].report_id

\* A duplicate next to its first occurrence is dropped, and the same
\* report_id further on, after another one, is retained again.
C10_Witness ==
    /\ stage = "aggregated"
    /\ Len(sorted) = 4
    /\ Len(retained) = 3
    /\ sorted[1].report_id = sorted[2].report_id
    /\ retained[1] = sorted[1]
    /\ retained[1].report_id = retained[3].report_id
    /\ retained[2].report_id # retained[1].report_id

-----------------------------------------------------------------------------
(* Further claim on the report loader (SpecLoader) *)

\* The calls of the decoder for message i: each prints the part's type.
Decoded(i) ==
    {j \in 1..Len(stdout) : stdout[j].msg = i /\ stdout[j].line = "mimetype"}

\* The results of parse_report printed for message i.
ReportsOf(i) ==
    {j \in 1..Len(stdout) : stdout[j].msg = i /\ stdout[j].line = "report"}

\* C11: in a run that ends Ok, each message has at most one part decoded and
\* parsed, the first of a supported type (application/zip or
\* application/gzip), so it contributes at most one report; a message whose
\* only report part is application/gzip contributes one.
C11_FirstSupportedPartOnly ==
    (Ran /\ exit = "Ok")
        => \A i \in 1..Len(emails) :
               /\ Cardinality(Decoded(i)) <= 1
               /\ Cardinality(ReportsOf(i)) <= 1
               /\ parse_mail(emails[i]) = Mail("gzip")
                      => \E j \in ReportsOf(i) : stdout[j].arg = "Ok"

-----------------------------------------------------------------------------
(* Further claim on the report model (SpecModel) *)

\* The disposition a text names, when it names one.
NamesDisposition(o) ==
    IsSome(o) /\ \E v \in Disposition : DispositionNames[v] = Unwrap(o)

\* C12: a policy_published element with an sp element naming a disposition
\* (and no text of its own) that deserializes has, once normalized, that
\* disposition as sp, also when it is not p; domain, adkim, aspf, p and pct
\* are what the element's domain, adkim, aspf, p and pct parse to.
C12_SpKeptAndFrame ==
    (/\ Applied("policy_published") /\ output.ok
     /\ NamesDisposition(input["sp"]) /\ ~IsSome(input["$text"]))
        => /\ DispositionNames[output.val.sp] = Unwrap(input["sp"])
           /\ output.val.domain = Unwrap(input["domain"])
           /\ output.val.adkim = OptionalEnum(input, "adkim", AlignmentNames).val
           /\ output.val.aspf = OptionalEnum(input, "aspf", AlignmentNames).val
           /\ DispositionNames[output.val.p] = Unwrap(input["p"])
           /\ output.val.pct = Unwrap(input["pct"])

====
